---------------------------- MODULE Spec2Model ----------------------------
(***************************************************************************)
(* A model of the Canon CR2 decoder of RawSpeed                            *)
(* (src/src/librawspeed/decoders/Cr2Decoder.cpp).                          *)
(*                                                                         *)
(* SpecNew  : Cr2Decoder::decodeNewFormat, one action per loop iteration   *)
(*            or straight-line block, as reached from decodeRawInternal.   *)
(* SpecOld  : Cr2Decoder::decodeOldFormat, likewise.                       *)
(* SpecYuv  : the coefficients of sRawInterpolate and the conversion of    *)
(*            one pixel by YUV_TO_RGB and STORE_RGB.                       *)
(* SpecMeta : Cr2Decoder::decodeMetaDataInternal.                          *)
(* Spec422  : interpolate_422, _422_old and _422_new, one call per row     *)
(*            range, the calls interleaved pixel by pixel.                 *)
(* Spec420  : getHue, and interpolate_420 or interpolate_420_new in one    *)
(*            call over the raster, as sRawInterpolate makes it.           *)
(*                                                                         *)
(* The TIFF entries of the file are fixed by the file; the model draws the *)
(* value of an entry at the step where the code first reads it.  The       *)
(* lossless-JPEG decoder (LJpegPlain) and the raster (RawImage) are not    *)
(* part of Cr2Decoder.cpp: calls into them are logged, and what they       *)
(* answer is drawn from the answers their interface allows.                *)
(***************************************************************************)
EXTENDS Integers, Sequences, FiniteSets, TLC

VARIABLES
  pc,            \* position in the decoder
  outcome,       \* "running", "returned", "threw", "trapped"
  what,          \* the message of the exception that left the call
  \* ---- the file, as the TIFF parser presents it
  subIFDs,       \* mRootIFD->getSubIFDs().size()
  hasStrips,     \* the raw IFD carries STRIPOFFSETS and STRIPBYTECOUNTS
  offsets,       \* the values of STRIPOFFSETS
  counts,        \* the values of STRIPBYTECOUNTS
  sofAt,         \* the frame header of the JPEG stream at each offset
  tag_c6c5,      \* entry 0xc6c5 of the raw IFD
  imageWidth,    \* entry IMAGEWIDTH of the raw IFD
  imageLength,   \* entry IMAGELENGTH of the raw IFD
  cr2slice,      \* entry CANONCR2SLICE of the raw IFD
  \* ---- locals of decodeNewFormat
  s,             \* index of the strip loop (line 164)
  slices,        \* vector<Cr2Slice> slices
  completeH,     \* int completeH
  s_width,       \* vector<int> s_width
  offY,          \* uint32 offY
  i,             \* index of the decode loop (line 237)
  \* ---- mRaw
  dim,           \* mRaw->dim
  cpp,           \* mRaw->getCpp()
  isCFA,         \* mRaw->isCFA
  allocated,     \* mRaw->createData() has run
  errors,        \* the raster's error log (mRaw->setError)
  subsampling,   \* mRaw->metadata.subsampling
  interpolated,  \* sRawInterpolate has rewritten the raster
  \* ---- the calls made into LJpegPlain
  sofCalls,      \* getSOF(&sof, offset, size), in order
  decodeCalls,   \* decode(offset, size, offX, offY) with the slice table added
  decodeResults, \* how each decode call ended: "ok", "rde", "ioe"
  \* ---- the caller's configuration
  hints,         \* the keys of the hint map
  uncorrectedRawValues,
  \* ---- decodeOldFormat
  offSource,     \* where the payload offset is found
  off,           \* uint32 off
  header,        \* the height and width read 41 bytes into the payload
  data,          \* the raster's samples, a sequence of rows
  table,         \* the raster's linearisation-table slot
  curve,         \* entry 0x123
  \* ---- sRawInterpolate and one pixel
  wb,            \* CANONCOLORDATA's shorts 78..81
  sraw_coeffs,   \* int sraw_coeffs[3]
  yuv,           \* the samples of the pixel and the hue
  rgb,           \* the samples stored by STORE_RGB
  \* ---- the interpolators (interpolate_422*, interpolate_420*)
  modelId,       \* entry 0x10, the camera's model id
  input,         \* the raster as the slice decoder left it
  workers,       \* the locals of each running call of an interpolator
  stores,        \* the STORE_RGB executed on each pixel, with the chroma used
  touched,       \* the rows each call has read or written
  stale,         \* the chroma samples read after they were overwritten
  \* ---- decodeMetaDataInternal
  meta,          \* the entries decodeMetaDataInternal reads
  mode,          \* string mode
  iso,           \* int iso
  wbCoeffs,      \* mRaw->metadata.wbCoeffs
  cfa,           \* mRaw->cfa
  metaCalls      \* the calls of setMetaData

fileVars == <<subIFDs, hasStrips, offsets, counts, sofAt, tag_c6c5,
              imageWidth, imageLength, cr2slice>>
localVars == <<s, slices, completeH, s_width, offY, i>>
rawVars == <<dim, cpp, isCFA, allocated, errors, subsampling, interpolated>>
callVars == <<sofCalls, decodeCalls, decodeResults>>
newVars == <<fileVars, localVars, sofCalls>>
oldVars == <<uncorrectedRawValues, offSource, off, header, data, table,
             curve>>
interpVars == <<modelId, input, workers, stores, touched, stale>>
yuvVars == <<wb, sraw_coeffs, yuv, rgb, interpVars>>
metaVars == <<meta, mode, iso, wbCoeffs, cfa, metaCalls>>

vars == <<pc, outcome, what, hints, rawVars, newVars, decodeCalls,
          decodeResults, oldVars, yuvVars, metaVars>>

----------------------------------------------------------------------------
(* Bounds of the model.                                                    *)

\* the largest number of values in STRIPOFFSETS
MaxStrips == 3

----------------------------------------------------------------------------
(* 32-bit arithmetic.  TLC's integers are 32 bits wide and TLC stops on an *)
(* overflow, so a product is formed byte by byte.                          *)

\* byte k of the two's complement representation of v
Limb(v, k) == (v \div (256 ^ k)) % 256

\* the low 32 bits of a * b, read as a signed int: what a wrapping
\* multiplication of two ints leaves
Mul32(a, b) ==
  LET c0 == Limb(a, 0) * Limb(b, 0)
      c1 == Limb(a, 0) * Limb(b, 1) + Limb(a, 1) * Limb(b, 0)
      c2 == Limb(a, 0) * Limb(b, 2) + Limb(a, 1) * Limb(b, 1)
            + Limb(a, 2) * Limb(b, 0)
      c3 == Limb(a, 0) * Limb(b, 3) + Limb(a, 1) * Limb(b, 2)
            + Limb(a, 2) * Limb(b, 1) + Limb(a, 3) * Limb(b, 0)
      t1 == c1 + (c0 \div 256)
      t2 == c2 + (t1 \div 256)
      t3 == c3 + (t2 \div 256)
      r3 == t3 % 256
      hi == IF r3 >= 128 THEN r3 - 256 ELSE r3
  IN  hi * 16777216 + (t2 % 256) * 65536 + (t1 % 256) * 256 + (c0 % 256)

Abs(v) == IF v < 0 THEN -v ELSE v

\* the exact product a * b is an int (no signed overflow)
MulFits(a, b) ==
  \/ a = 0
  \/ b = 0
  \/ a = 1
  \/ b = 1
  \/ a >= -2147483647 /\ b >= -2147483647
     /\ (a < 0) = (b < 0) /\ Abs(a) <= 2147483647 \div Abs(b)
  \/ a >= -2147483647 /\ b >= -2147483647
     /\ (a < 0) # (b < 0)
     /\ Abs(a) <= (2147483647 \div Abs(b))
                  + (IF 2147483647 % Abs(b) = Abs(b) - 1 THEN 1 ELSE 0)

\* the exact product a * b equals c, for a, b, c >= 0, without forming a * b
ExactMulEq(a, b, c) ==
  IF a = 0 THEN c = 0 ELSE c % a = 0 /\ c \div a = b

RECURSIVE SumSeq(_)
SumSeq(q) == IF q = <<>> THEN 0 ELSE Head(q) + SumSeq(Tail(q))

RECURSIVE MaxSeq(_)
MaxSeq(q) ==
  IF q = <<>> THEN 0
  ELSE LET m == MaxSeq(Tail(q)) IN IF Head(q) > m THEN Head(q) ELSE m

\* the sequence of n copies of v
Repeat(v, n) == [k \in 1..n |-> v]

----------------------------------------------------------------------------
(* The file.                                                               *)

\* an absent TIFF entry, and a present one with its first value
NoEntry == [present |-> FALSE, val |-> 0]
Entry(v) == [present |-> TRUE, val |-> v]

\* byte offsets at which the file holds a JPEG stream, and strip sizes
StripOffsetValues == {8, 16}
StripSizeValues == {8, 40}

\* the file's size: FileMap::getSize()
FileSize == 32

\* FileMap::isValid(offset, size): the range lies inside the file
isValid(offset, size) == offset + size <= FileSize

\* the JPEG frame headers a stream may carry: width, height, components, and
\* the sampling factors the decoder turns into metadata.subsampling
SOFInfos ==
  { [w |-> 4, h |-> 2, cps |-> 1, sx |-> 1, sy |-> 1],
    [w |-> 3, h |-> 4, cps |-> 1, sx |-> 1, sy |-> 1],
    [w |-> 2, h |-> 2, cps |-> 3, sx |-> 2, sy |-> 1],
    [w |-> 2, h |-> 2, cps |-> 3, sx |-> 2, sy |-> 2],
    [w |-> 2, h |-> 2, cps |-> 3, sx |-> 1, sy |-> 2],
    [w |-> 4, h |-> 2, cps |-> 4, sx |-> 1, sy |-> 1] }

NoSOF == [w |-> 0, h |-> 0, cps |-> 0, sx |-> 0, sy |-> 0]

\* the values entry 0xc6c5 takes
C6c5Entries == {NoEntry, Entry(1), Entry(4)}

\* the pairs (IMAGEWIDTH, IMAGELENGTH) a raw IFD carries
ImageSizeEntries ==
  { <<NoEntry, NoEntry>>, <<Entry(2), NoEntry>>,
    <<Entry(2), Entry(2)>>, <<Entry(1), Entry(4)>>, <<Entry(4), Entry(2)>>,
    <<Entry(3), Entry(2)>>, <<Entry(1073741825), Entry(4)>> }

\* CANONCR2SLICE: absent (the empty tuple) or (count, width, last width)
Cr2SliceEntries == { <<>>, <<1, 2, 2>>, <<2, 2, 2>>, <<1, 3, 2>> }

----------------------------------------------------------------------------
(* decodeNewFormat: the pieces of its code.                                *)

\* ThrowRDE(msg), and any exception that leaves decodeRawInternal
Throw(msg) ==
  /\ pc' = "done"
  /\ outcome' = "threw"
  /\ what' = msg

\* slice.offset = offsets[0].getInt(): the entry's first value, whatever s is
StripOffset(k) == offsets[1]

\* slice.size = counts[0].getInt()
StripSize(k) == counts[1]

\* the Canon double height fix applied to a frame header
FixedSOF(sof) ==
  IF sof.cps = 4 /\ sof.w > sof.h
  THEN [sof EXCEPT !.w = sof.w \div 2, !.h = sof.h * 2]
  ELSE sof

\* the Cr2Slice recorded for a strip
SliceOf(sof, offset, size) ==
  [w |-> FixedSOF(sof).w * FixedSOF(sof).cps, h |-> FixedSOF(sof).h,
   offset |-> offset, size |-> size]

ProvisionalDimTallest(sl, ch) ==
  [x |-> sl[1].w, y |-> MaxSeq([k \in 1..Len(sl) |-> sl[k].h])]

\* mRaw->dim = iPoint2D(slices[0].w, completeH)
ProvisionalDim(sl, ch) == [x |-> sl[1].w, y |-> ch]

\* if (mRaw->dim.x < mRaw->dim.y) swap(mRaw->dim.x, mRaw->dim.y)
SwapIfFlipped(d) == IF d.x < d.y THEN [x |-> d.y, y |-> d.x] ELSE d

\* the slice widths handed to LJpegPlain::addSlices
SliceWidths(cs, sl) ==
  IF cs # <<>> THEN Repeat(cs[2], cs[1]) \o <<cs[3]>> ELSE <<sl[1].w>>

RethrowsAlways(k, res) == res = "rde"

RethrowsFirst(k, res) == k = 0

\* the catch clauses of the decode loop: a RawDecoderException is thrown on
\* for slice 0 only, an IOException never
Rethrows(k, res) == res = "rde" /\ k = 0

\* l.decode(slice.offset, slice.size, 0, offY): the destination (offX, offY)
DecodeOrigin(y) == [x |-> 0, y |-> y]

\* what the JPEG decoder answers to a decode call
DecodeOutcomes == {"ok", "rde", "ioe"}

\* the sRaw interpolator runs
RunsInterpolator(sub) == sub.x > 1 \/ sub.y > 1

\* sRawInterpolate knows the subsampling
KnownSubsampling(sub) ==
  \/ sub.y = 1 /\ sub.x = 2
  \/ sub.y = 2 /\ sub.x = 2

----------------------------------------------------------------------------
(* decodeNewFormat: its steps.                                             *)

\* the state of the parts a specification leaves alone
IdleRaw ==
  /\ dim = [x |-> 0, y |-> 0]
  /\ cpp = 1
  /\ isCFA = FALSE
  /\ allocated = FALSE
  /\ errors = <<>>
  /\ subsampling = [x |-> 1, y |-> 1]
  /\ interpolated = FALSE

IdleNew ==
  /\ subIFDs = 0
  /\ hasStrips = FALSE
  /\ offsets = <<>>
  /\ counts = <<>>
  /\ sofAt = [o \in StripOffsetValues |-> NoSOF]
  /\ tag_c6c5 = NoEntry
  /\ imageWidth = NoEntry
  /\ imageLength = NoEntry
  /\ cr2slice = <<>>
  /\ s = 0
  /\ slices = <<>>
  /\ completeH = 0
  /\ s_width = <<>>
  /\ offY = 0
  /\ i = 0
  /\ sofCalls = <<>>

IdleCalls ==
  /\ decodeCalls = <<>>
  /\ decodeResults = <<>>

IdleOld ==
  /\ uncorrectedRawValues = FALSE
  /\ offSource = ""
  /\ off = 0
  /\ header = [height |-> 0, width |-> 0]
  /\ data = <<>>
  /\ table = <<>>
  /\ curve = NoEntry

IdleInterp ==
  /\ modelId = [present |-> FALSE, val |-> 0]
  /\ input = <<>>
  /\ workers = <<>>
  /\ stores = <<>>
  /\ touched = {}
  /\ stale = {}

IdleYuv ==
  /\ wb = <<>>
  /\ sraw_coeffs = <<>>
  /\ yuv = [Y |-> 0, Cb |-> 0, Cr |-> 0, hue |-> 0]
  /\ rgb = <<>>
  /\ IdleInterp

IdleMeta ==
  /\ meta = <<>>
  /\ mode = ""
  /\ iso = 0
  /\ wbCoeffs = <<>>
  /\ cfa = <<>>
  /\ metaCalls = <<>>

InitNew ==
  /\ pc = "start"
  /\ outcome = "running"
  /\ what = ""
  /\ subIFDs \in {3, 4}
  /\ hasStrips \in BOOLEAN
  /\ \E n \in 1..MaxStrips :
       /\ offsets \in [1..n -> StripOffsetValues]
       /\ counts \in [1..n -> StripSizeValues]
  /\ sofAt = [o \in StripOffsetValues |-> NoSOF]
  /\ tag_c6c5 = NoEntry
  /\ imageWidth = NoEntry
  /\ imageLength = NoEntry
  /\ cr2slice = <<>>
  /\ s = 0
  /\ slices = <<>>
  /\ completeH = 0
  /\ s_width = <<>>
  /\ offY = 0
  /\ i = 0
  /\ dim = [x |-> 0, y |-> 0]
  /\ cpp = 1
  /\ isCFA = FALSE
  /\ allocated = FALSE
  /\ errors = <<>>
  /\ subsampling = [x |-> 1, y |-> 1]
  /\ interpolated = FALSE
  /\ sofCalls = <<>>
  /\ decodeCalls = <<>>
  /\ decodeResults = <<>>
  /\ hints = {}
  /\ IdleOld
  /\ IdleYuv
  /\ IdleMeta

\* lines 152-162: the raw IFD and its strip entries
FindRawIFD ==
  /\ pc = "start"
  /\ IF subIFDs < 4
     THEN Throw("CR2 Decoder: No image data found") /\ UNCHANGED isCFA
     ELSE IF ~hasStrips
     THEN Throw("CR2 Decoder: Unsupported format.") /\ isCFA' = TRUE
     ELSE /\ pc' = "scan"
          /\ isCFA' = TRUE
          /\ UNCHANGED <<outcome, what>>
  /\ UNCHANGED <<fileVars, localVars, callVars>>
  /\ UNCHANGED <<dim, cpp, allocated, errors, subsampling, interpolated>>
  /\ UNCHANGED <<hints, oldVars, yuvVars, metaVars>>

\* lines 164-187: one iteration of the strip loop
ScanStrip ==
  /\ pc = "scan"
  /\ s < Len(offsets)
  /\ LET offset == StripOffset(s)
         size == StripSize(s)
     IN \E sof \in SOFInfos :
          /\ sofAt[offset] \in {NoSOF, sof}
          /\ sofAt' = [sofAt EXCEPT ![offset] = sof]
          /\ sofCalls' = Append(sofCalls, [offset |-> offset, size |-> size])
          /\ LET slice == SliceOf(sof, offset, size)
             IN IF slices # <<>> /\ slices[1].w # slice.w
                THEN /\ Throw("CR2 Decoder: Slice width does not match.")
                     /\ UNCHANGED <<s, slices, completeH>>
                ELSE /\ slices' = IF isValid(offset, size)
                                  THEN Append(slices, slice)
                                  ELSE slices
                     /\ completeH' = completeH + slice.h
                     /\ s' = s + 1
                     /\ UNCHANGED <<pc, outcome, what>>
  /\ UNCHANGED <<subIFDs, hasStrips, offsets, counts, tag_c6c5, imageWidth,
                 imageLength, cr2slice>>
  /\ UNCHANGED <<s_width, offY, i, rawVars, decodeCalls, decodeResults>>
  /\ UNCHANGED <<hints, oldVars, yuvVars, metaVars>>

\* lines 189-234: the raster's dimensions, its allocation, the slice widths
SetDimensions ==
  /\ pc = "scan"
  /\ s = Len(offsets)
  /\ IF slices = <<>>
     THEN /\ Throw("CR2 Decoder: No Slices found.")
          /\ UNCHANGED <<tag_c6c5, imageWidth, imageLength, cr2slice, s_width,
                         dim, cpp, isCFA, allocated>>
     ELSE \E e5 \in C6c5Entries, sz \in ImageSizeEntries,
             cs \in Cr2SliceEntries, ub \in {"wrap", "trap"} :
       LET prov == ProvisionalDim(slices, completeH)
           sraw == e5.present /\ (e5.val % 65536) = 4
           d1 == IF sraw THEN [prov EXCEPT !.x = prov.x \div 3] ELSE prov
           both == sraw /\ sz[1].present /\ sz[2].present
           w == sz[1].val
           h == sz[2].val
           overflow == both /\ ~(MulFits(w, h) /\ MulFits(d1.x, d1.y))
           mismatch == both /\ Mul32(w, h) # Mul32(d1.x, d1.y)
           d2 == IF both THEN [x |-> w, y |-> h] ELSE d1
           d3 == IF e5.present THEN SwapIfFlipped(d2) ELSE d2
       IN /\ tag_c6c5' = e5
          /\ imageWidth' = IF sraw THEN sz[1] ELSE NoEntry
          /\ imageLength' = IF sraw /\ sz[1].present THEN sz[2] ELSE NoEntry
          /\ cpp' = IF sraw THEN 3 ELSE cpp
          /\ isCFA' = IF sraw THEN FALSE ELSE isCFA
          /\ IF overflow /\ ub = "trap"
             THEN /\ pc' = "done"
                  /\ outcome' = "trapped"
                  /\ what' = "signed integer overflow"
                  /\ dim' = d1
                  /\ UNCHANGED <<cr2slice, s_width, allocated>>
             ELSE IF mismatch
             THEN /\ Throw("CR2 Decoder: Wrapped slices don't match image size")
                  /\ dim' = d1
                  /\ UNCHANGED <<cr2slice, s_width, allocated>>
             ELSE /\ dim' = d3
                  /\ allocated' = TRUE
                  /\ cr2slice' = cs
                  /\ s_width' = SliceWidths(cs, slices)
                  /\ pc' = "decode"
                  /\ UNCHANGED <<outcome, what>>
  /\ UNCHANGED <<subIFDs, hasStrips, offsets, counts, sofAt>>
  /\ UNCHANGED <<s, slices, completeH, offY, i>>
  /\ UNCHANGED <<errors, subsampling, interpolated, callVars>>
  /\ UNCHANGED <<hints, oldVars, yuvVars, metaVars>>

\* lines 237-253: one iteration of the decode loop
DecodeSlice ==
  /\ pc = "decode"
  /\ i < Len(slices)
  /\ LET slice == slices[i + 1]
     IN \E res \in DecodeOutcomes :
          /\ decodeCalls' = Append(decodeCalls,
                 [offset |-> slice.offset, size |-> slice.size,
                  x |-> DecodeOrigin(offY).x, y |-> DecodeOrigin(offY).y,
                  widths |-> s_width])
          /\ decodeResults' = Append(decodeResults, res)
          /\ subsampling' = IF res = "ok"
                            THEN [x |-> sofAt[slice.offset].sx,
                                  y |-> sofAt[slice.offset].sy]
                            ELSE subsampling
          /\ IF res # "ok" /\ Rethrows(i, res)
             THEN /\ Throw("LJpegPlain: decode failed")
                  /\ UNCHANGED <<errors, offY, i>>
             ELSE /\ errors' = IF res = "ok" THEN errors
                               ELSE Append(errors, res)
                  /\ offY' = offY + slice.w
                  /\ i' = i + 1
                  /\ UNCHANGED <<pc, outcome, what>>
  /\ UNCHANGED <<fileVars, s, slices, completeH, s_width, sofCalls>>
  /\ UNCHANGED <<dim, cpp, isCFA, allocated, interpolated>>
  /\ UNCHANGED <<hints, oldVars, yuvVars, metaVars>>

\* lines 255-258 and sRawInterpolate's own failures (lines 381-417)
FinishNew ==
  /\ pc = "decode"
  /\ i = Len(slices)
  /\ IF RunsInterpolator(subsampling)
     THEN \E hasColorData \in BOOLEAN :
            IF ~hasColorData
            THEN Throw("CR2 sRaw: Unable to locate WB info.")
                 /\ UNCHANGED interpolated
            ELSE IF ~KnownSubsampling(subsampling)
            THEN Throw("CR2 Decoder: Unknown subsampling")
                 /\ UNCHANGED interpolated
            ELSE /\ interpolated' = TRUE
                 /\ pc' = "done"
                 /\ outcome' = "returned"
                 /\ UNCHANGED what
     ELSE /\ pc' = "done"
          /\ outcome' = "returned"
          /\ UNCHANGED <<what, interpolated>>
  /\ UNCHANGED <<fileVars, localVars, callVars>>
  /\ UNCHANGED <<dim, cpp, isCFA, allocated, errors, subsampling>>
  /\ UNCHANGED <<hints, oldVars, yuvVars, metaVars>>

NextNew ==
  \/ FindRawIFD
  \/ ScanStrip
  \/ SetDimensions
  \/ DecodeSlice
  \/ FinishNew

SpecNew == InitNew /\ [][NextNew]_vars

----------------------------------------------------------------------------
(* Properties of decodeNewFormat.                                          *)

\* entry 0xc6c5 marks the file as sRaw
IsSRawFile == tag_c6c5.present /\ (tag_c6c5.val % 65536) = 4

\* the heights of the retained slices
SliceHeights == [k \in 1..Len(slices) |-> slices[k].h]

\* the heights of all the strips interrogated, retained or not
StripHeights ==
  [k \in 1..Len(sofCalls) |-> FixedSOF(sofAt[sofCalls[k].offset]).h]

\* the messages with which sRawInterpolate fails
SRawFailures ==
  {"CR2 sRaw: Unable to locate WB info.", "CR2 Decoder: Unknown subsampling"}

\* the decode calls that failed, in order
FailedResults == SelectSeq(decodeResults, LAMBDA r : r # "ok")

C3_LaterFailuresLoggedAndRasterReturned ==
  (pc = "done" /\ decodeResults # <<>> /\ decodeResults[1] # "rde") =>
    /\ Len(decodeCalls) = Len(slices)
    /\ \A k \in 1..Len(decodeCalls) :
         /\ decodeCalls[k].offset = slices[k].offset
         /\ decodeCalls[k].size = slices[k].size
    /\ errors = FailedResults
    /\ outcome = "returned"

\* C3 amended: whatever fails on the slices after the first, every retained
\* slice is decoded once, in order, each failure is logged once and the loop
\* goes on; the call then returns the raster unless sRawInterpolate fails
\* (no CANONCOLORDATA, or a subsampling it does not know).
C3_LaterFailuresLoggedAndLoopCompletes ==
  (decodeResults # <<>> /\ decodeResults[1] # "rde") =>
    /\ Len(decodeCalls) = i
    /\ Len(decodeResults) = i
    /\ \A k \in 1..i :
         /\ decodeCalls[k].offset = slices[k].offset
         /\ decodeCalls[k].size = slices[k].size
    /\ errors = FailedResults
    /\ pc = "done" =>
         /\ i = Len(slices)
         /\ \/ outcome = "returned"
            \/ outcome = "threw" /\ what \in SRawFailures

\* C3 witness: slice 1 failed, slice 2 was decoded after it, and the raster
\* was returned with one logged error.
C3_Witness ==
  /\ outcome = "returned"
  /\ Len(decodeResults) = 3
  /\ decodeResults[1] = "ok"
  /\ decodeResults[2] # "ok"
  /\ decodeResults[3] = "ok"
  /\ Len(errors) = 1

\* C4 as stated: the frame header and the decode of strip i are read from
\* (STRIPOFFSETS[i], STRIPBYTECOUNTS[i]).
C4_StripReadAtItsOwnRange ==
  /\ \A k \in 1..Len(sofCalls) :
       /\ sofCalls[k].offset = offsets[k]
       /\ sofCalls[k].size = counts[k]
  /\ Len(slices) = Len(offsets) =>
       \A k \in 1..Len(decodeCalls) :
         /\ decodeCalls[k].offset = offsets[k]
         /\ decodeCalls[k].size = counts[k]

\* C5 as stated: slice i is decoded to x-origin = the sum of the widths of
\* the slices before it and y-origin 0, and that origin is inside the raster.
C5_SliceOriginIsWidthSumInsideRaster ==
  \A k \in 1..Len(decodeCalls) :
    /\ decodeCalls[k].x = SumSeq([j \in 1..(k - 1) |-> slices[j].w])
    /\ decodeCalls[k].y = 0
    /\ decodeCalls[k].x < dim.x
    /\ decodeCalls[k].y < dim.y

\* C6 as stated: a raster returned after the sRaw interpolator ran has three
\* components per pixel and is not a mosaic, whatever entry 0xc6c5 is.
C6_InterpolatedRasterHasThreeComponents ==
  (outcome = "returned" /\ interpolated) => cpp = 3 /\ ~isCFA

\* C9 as stated: for an sRaw file with IMAGEWIDTH and IMAGELENGTH, the call
\* fails before allocating when IW*IL differs from (slices[0].w / 3) * (sum
\* of the slice heights); otherwise the raster is IW by IL, swapped so that
\* dim.x >= dim.y, and has that area.
C9_DeclaredSizeMustMatchArea ==
  (IsSRawFile /\ imageWidth.present /\ imageLength.present) =>
    LET px == slices[1].w \div 3
        py == SumSeq(StripHeights)
        IW == imageWidth.val
        IL == imageLength.val
    IN IF \E a \in 0..(px * py) : a = px * py /\ ~ExactMulEq(IW, IL, a)
       THEN /\ outcome = "threw"
            /\ what = "CR2 Decoder: Wrapped slices don't match image size"
            /\ ~allocated
       ELSE /\ allocated
            /\ dim = SwapIfFlipped([x |-> IW, y |-> IL])
            /\ dim.x >= dim.y
            /\ ExactMulEq(dim.x, dim.y, px * py)

----------------------------------------------------------------------------
(* decodeOldFormat.                                                        *)

\* the largest height in the payload's header
MaxOldHeight == 2

\* the widths in the payload's header
OldWidths == {1}

\* the samples the JPEG decoder leaves in the raster
SampleValues == {5, 4101, 65535}

\* the number of values of a linearisation curve
CurveCount == 4096

\* the contents entry 0x123 may have: value idx of curve id
CurveIds == {1, 2, 3}
CurveValue(id, idx) ==
  CASE id = 1 -> idx
    [] id = 2 -> (idx * 16 + 3) % 65536
    [] OTHER -> 65535 - idx

\* entry 0x123: absent, or of a type and a count
NoCurve == [present |-> FALSE, type |-> "", count |-> 0, id |-> 0]
CurveEntries ==
  {NoCurve}
  \cup {[present |-> TRUE, type |-> "SHORT", count |-> CurveCount, id |-> k] :
          k \in CurveIds}
  \cup {[present |-> TRUE, type |-> "SHORT", count |-> 256, id |-> 1],
        [present |-> TRUE, type |-> "LONG", count |-> CurveCount, id |-> 1]}

\* where the payload offset comes from: entry 0x81, the STRIPOFFSETS of the
\* first IFD with CFAPATTERN, no such IFD, or such an IFD without STRIPOFFSETS
OffSources == {"0x81", "strip", "noIFD", "noStrip"}

\* a raster of the given size filled by f(x, y), 0-based as in getData(x, y)
Raster(w, h, f(_, _)) == [y \in 1..h |-> [x \in 1..w |-> f(x - 1, y - 1)]]

\* the rasters of a size the JPEG decoder may leave
Rasters(w, h) == [1..h -> [1..w -> SampleValues]]

\* the dimensions handed to the JPEG decoder
OldDim(hd, double) ==
  IF double
  THEN [x |-> hd.width * 2, y |-> (hd.height * 2) \div 2]
  ELSE [x |-> hd.width * 2, y |-> hd.height]

\* the double width, half height raster rewritten to the normal format
Deinterleaved(src, width, height) ==
  Raster(width, height,
         LAMBDA x, y :
           src[(y \div 2) + 1][(IF y % 2 = 0 THEN 0 ELSE width) + x + 1])

\* RawImageData::setTable(table, nfilled, dither)
SetTable(id, nfilled, dither) ==
  <<[id |-> id, nfilled |-> nfilled, dither |-> dither]>>

\* RawImageData::sixteenBitLookup: every sample s becomes table[s & 0xfff]
SixteenBitLookup(d, tbl) ==
  [y \in DOMAIN d |->
     [x \in DOMAIN d[y] |-> CurveValue(tbl[1].id, d[y][x] % tbl[1].nfilled)]]

\* if (curve->type == TIFF_SHORT && curve->count == 4096)
IsLinearisationCurve(c) == c.type = "SHORT" /\ c.count = CurveCount

LinearisedWhenUncorrected(d, c, uncorrected) ==
  IF uncorrected
  THEN [data |-> SixteenBitLookup(d, SetTable(c.id, CurveCount, TRUE)),
        table |-> <<>>]
  ELSE [data |-> d, table |-> SetTable(c.id, CurveCount, FALSE)]

\* lines 123-132: the table applied and removed, or only stored
Linearised(d, c, uncorrected) ==
  IF ~uncorrected
  THEN [data |-> SixteenBitLookup(d, SetTable(c.id, CurveCount, TRUE)),
        table |-> <<>>]
  ELSE [data |-> d, table |-> SetTable(c.id, CurveCount, FALSE)]

InitOld ==
  /\ pc = "old_start"
  /\ outcome = "running"
  /\ what = ""
  /\ hints \in {{"old_format"}, {"old_format", "double_line_ljpeg"}}
  /\ uncorrectedRawValues \in BOOLEAN
  /\ offSource \in OffSources
  /\ off = 0
  /\ \E w \in OldWidths, h \in 1..MaxOldHeight :
       header = [height |-> h, width |-> w]
  /\ data = <<>>
  /\ table = <<>>
  /\ curve = NoCurve
  /\ decodeCalls = <<>>
  /\ decodeResults = <<>>
  /\ IdleRaw
  /\ IdleNew
  /\ IdleYuv
  /\ IdleMeta

\* lines 61-91: the payload offset, the header, the raster for the decoder
FindOffsetOld ==
  /\ pc = "old_start"
  /\ IF offSource \in {"noIFD", "noStrip"}
     THEN /\ Throw("CR2 Decoder: Couldn't find offset")
          /\ UNCHANGED <<off, dim, allocated>>
     ELSE /\ off' \in StripOffsetValues
          /\ dim' = OldDim(header, "double_line_ljpeg" \in hints)
          /\ allocated' = TRUE
          /\ pc' = "old_decode"
          /\ UNCHANGED <<outcome, what>>
  /\ UNCHANGED <<uncorrectedRawValues, offSource, header, data, table, curve>>
  /\ UNCHANGED <<cpp, isCFA, errors, subsampling, interpolated>>
  /\ UNCHANGED <<hints, newVars, decodeCalls, decodeResults, yuvVars, metaVars>>

\* lines 92-97: the decode of the whole payload
DecodeOld ==
  /\ pc = "old_decode"
  /\ \E res \in DecodeOutcomes :
       /\ decodeCalls' = Append(decodeCalls,
              [offset |-> off, size |-> FileSize - off,
               x |-> 0, y |-> 0, widths |-> <<>>])
       /\ decodeResults' = Append(decodeResults, res)
       /\ IF res = "rde"
          THEN /\ Throw("LJpegPlain: decode failed")
               /\ UNCHANGED <<data, errors>>
          ELSE /\ data' \in Rasters(dim.x, dim.y)
               /\ errors' = IF res = "ioe" THEN Append(errors, res) ELSE errors
               /\ pc' = "old_deinterleave"
               /\ UNCHANGED <<outcome, what>>
  /\ UNCHANGED <<uncorrectedRawValues, offSource, off, header, table, curve>>
  /\ UNCHANGED <<dim, cpp, isCFA, allocated, subsampling, interpolated>>
  /\ UNCHANGED <<hints, newVars, yuvVars, metaVars>>

\* lines 99-114: the double width raster rewritten, under the hint
Deinterleave ==
  /\ pc = "old_deinterleave"
  /\ IF "double_line_ljpeg" \in hints
     THEN LET width == header.width
              height == header.height * 2
          IN /\ data' = Deinterleaved(data, width, height)
             /\ dim' = [x |-> width, y |-> height]
     ELSE UNCHANGED <<data, dim>>
  /\ pc' = "old_curve"
  /\ UNCHANGED <<outcome, what>>
  /\ UNCHANGED <<uncorrectedRawValues, offSource, off, header, table, curve>>
  /\ UNCHANGED <<cpp, isCFA, allocated, errors, subsampling, interpolated>>
  /\ UNCHANGED <<hints, newVars, decodeCalls, decodeResults, yuvVars, metaVars>>

\* lines 116-137: the linearisation curve, and the return
Linearise ==
  /\ pc = "old_curve"
  /\ \E c \in CurveEntries :
       /\ curve' = c
       /\ IF c.present /\ IsLinearisationCurve(c)
          THEN /\ data' = Linearised(data, c, uncorrectedRawValues).data
               /\ table' = Linearised(data, c, uncorrectedRawValues).table
          ELSE UNCHANGED <<data, table>>
  /\ pc' = "done"
  /\ outcome' = "returned"
  /\ UNCHANGED what
  /\ UNCHANGED <<uncorrectedRawValues, offSource, off, header>>
  /\ UNCHANGED rawVars
  /\ UNCHANGED <<hints, newVars, decodeCalls, decodeResults, yuvVars, metaVars>>

NextOld ==
  \/ FindOffsetOld
  \/ DecodeOld
  \/ Deinterleave
  \/ Linearise

SpecOld == InitOld /\ [][NextOld]_vars

\* C8: when entry 0x123 is a 16-bit entry of 4096 values T and uncorrected
\* output was not requested, decodeOldFormat returns the raster with every
\* sample s replaced by T[s & 0xfff], its dimensions unchanged and its
\* linearisation-table slot empty.
C8_LinearisedByCurve ==
  [][(/\ pc = "old_curve"
      /\ curve'.present
      /\ curve'.type = "SHORT"
      /\ curve'.count = CurveCount
      /\ ~uncorrectedRawValues)
     => /\ outcome' = "returned"
        /\ DOMAIN data' = DOMAIN data
        /\ \A y \in DOMAIN data :
             /\ DOMAIN data'[y] = DOMAIN data[y]
             /\ \A x \in DOMAIN data[y] :
                  data'[y][x] = CurveValue(curve'.id, data[y][x] % 4096)
        /\ dim' = dim
        /\ Len(data') = dim'.y
        /\ table' = <<>>]_vars

\* C8 witness: a raster of two rows was returned linearised by the curve
\* with id 2, its table slot empty.
C8_Witness ==
  /\ pc = "done"
  /\ outcome = "returned"
  /\ curve.present /\ curve.type = "SHORT" /\ curve.count = CurveCount
  /\ curve.id = 2
  /\ ~uncorrectedRawValues
  /\ table = <<>>
  /\ Len(data) = 2
  /\ \A y \in DOMAIN data : \A x \in DOMAIN data[y] :
       data[y][x] \in {CurveValue(2, v % 4096) : v \in SampleValues}
  /\ \E y \in DOMAIN data : \E x \in DOMAIN data[y] :
       data[y][x] = CurveValue(2, 4101 % 4096)

----------------------------------------------------------------------------
(* sRawInterpolate's coefficients, and the conversion of one pixel.        *)

\* v >> n on an int: the arithmetic shift
Shr(v, n) == v \div (2 ^ n)

\* clampbits(x, n): x clamped to 0 .. 2^n - 1
clampbits(x, n) ==
  IF x < 0 THEN 0 ELSE IF x >= 2 ^ n THEN 2 ^ n - 1 ELSE x

\* the shorts CANONCOLORDATA holds at offsets 78..81
WbValues == {0, 1024, 65535}

\* the samples of a pixel, and the values getHue returns
LumaValues == {0, 32768, 65535}
ChromaValues == {0, 16384, 65535}
HueValues == {0, 2}

\* (int)(1024.0f / ((float)c / 1024.0f)); for c = 0 the quotient is
\* infinite and its conversion to int is undefined
InvertOutcomes(c) ==
  IF c = 0 THEN {-2147483647 - 1, 2147483647} ELSE {1048576 \div c}

\* the coefficients as read from the entry (lines 390-392)
CoeffsOf(w) == <<w[1], Shr(w[2] + w[3] + 1, 1), w[4]>>

\* the sums of YUV_TO_RGB that sraw_coeffs multiply
LumaChroma(Y, Cb, Cr) ==
  << Y + Shr(50 * Cb + 22929 * Cr, 12),
     Y + Shr(-5640 * Cb - 11751 * Cr, 12),
     Y + Shr(29040 * Cb - 101 * Cr, 12) >>

\* YUV_TO_RGB: r, g, b as the wrapping int arithmetic leaves them
YUV_TO_RGB(coeffs, Y, Cb, Cr) ==
  [k \in 1..3 |-> Shr(Mul32(coeffs[k], LumaChroma(Y, Cb, Cr)[k]), 8)]

\* a product of YUV_TO_RGB overflows the int
YuvOverflows(coeffs, Y, Cb, Cr) ==
  \E k \in 1..3 : ~MulFits(coeffs[k], LumaChroma(Y, Cb, Cr)[k])

\* STORE_RGB: the three samples written
STORE_RGB(r) == [k \in 1..3 |-> clampbits(r[k], 16)]

\* the chroma sample with the hue bias removed (lines 445, 452-453)
Unbiased(sample, hue) == sample - (-hue + 16384)

InitYuv ==
  /\ pc = "yuv_start"
  /\ outcome = "running"
  /\ what = ""
  /\ hints \in {{}, {"invert_sraw_wb"}}
  /\ wb \in [1..4 -> WbValues]
  /\ sraw_coeffs = <<>>
  /\ yuv \in [Y : LumaValues, Cb : ChromaValues, Cr : ChromaValues,
              hue : HueValues]
  /\ rgb = <<>>
  /\ IdleInterp
  /\ IdleRaw
  /\ IdleNew
  /\ IdleCalls
  /\ IdleOld
  /\ IdleMeta

\* lines 386-397: sraw_coeffs
ReadCoefficients ==
  /\ pc = "yuv_start"
  /\ LET c == CoeffsOf(wb)
     IN IF "invert_sraw_wb" \in hints
        THEN \E c0 \in InvertOutcomes(c[1]), c2 \in InvertOutcomes(c[3]) :
               sraw_coeffs' = <<c0, c[2], c2>>
        ELSE sraw_coeffs' = c
  /\ pc' = "yuv_pixel"
  /\ UNCHANGED <<outcome, what, wb, yuv, rgb, interpVars>>
  /\ UNCHANGED <<hints, rawVars, newVars, decodeCalls, decodeResults, oldVars,
                 metaVars>>

\* lines 451-455: one pixel read, converted and stored
ConvertPixel ==
  /\ pc = "yuv_pixel"
  /\ LET Y == yuv.Y
         Cb == Unbiased(yuv.Cb, yuv.hue)
         Cr == Unbiased(yuv.Cr, yuv.hue)
     IN \E ub \in {"wrap", "trap"} :
          IF YuvOverflows(sraw_coeffs, Y, Cb, Cr) /\ ub = "trap"
          THEN /\ outcome' = "trapped"
               /\ what' = "signed integer overflow"
               /\ UNCHANGED rgb
          ELSE /\ rgb' = STORE_RGB(YUV_TO_RGB(sraw_coeffs, Y, Cb, Cr))
               /\ outcome' = "returned"
               /\ UNCHANGED what
  /\ pc' = "done"
  /\ UNCHANGED <<wb, sraw_coeffs, yuv, interpVars>>
  /\ UNCHANGED <<hints, rawVars, newVars, decodeCalls, decodeResults, oldVars,
                 metaVars>>

NextYuv ==
  \/ ReadCoefficients
  \/ ConvertPixel

SpecYuv == InitYuv /\ [][NextYuv]_vars

\* floor(c * t / 256) for the exact product c * t, without forming it
ExactShr8(c, t) == (c \div 256) * t + ((c % 256) * t) \div 256

\* C7 as stated: with 16-bit samples and 16-bit coefficients read from
\* CANONCOLORDATA, every component stored by the classic formula equals
\* clamp(v >> 8, 0, 65535) for the exact value v of the formula: the int
\* arithmetic never wraps so as to change what is stored.
C7_StoredIsClampOfExactValue ==
  (pc = "done" /\ "invert_sraw_wb" \notin hints) =>
    /\ outcome = "returned"
    /\ LET t == LumaChroma(yuv.Y, Unbiased(yuv.Cb, yuv.hue),
                           Unbiased(yuv.Cr, yuv.hue))
       IN rgb = [k \in 1..3 |-> clampbits(ExactShr8(sraw_coeffs[k], t[k]), 16)]

----------------------------------------------------------------------------
(* decodeMetaDataInternal.                                                 *)

\* the largest subsampling factor the raster carries
MaxSubsampling == 2

\* where the white balance is found: CANONCOLORDATA, CANONSHOTINFO with
\* CANONPOWERSHOTG9WB, entry 0xa4, or nowhere
WbSources == {"colordata", "g9", "a4", "none"}

\* the values of the hint "wb_offset", as decimal digits; the empty value is
\* one that does not parse
WbOffsetHints == {<<1, 2, 6>>, <<5, 0>>, <<>>}

\* value idx of an entry of the file with contents c
EntryValue(c, idx) == (c * 1000 + idx) % 65536

\* stringstream >> offset: the decimal value, 0 when nothing parses
RECURSIVE ParseDecimal(_)
ParseDecimal(digits) ==
  IF digits = <<>> THEN 0
  ELSE ParseDecimal(SubSeq(digits, 1, Len(digits) - 1)) * 10
       + digits[Len(digits)]

\* "012347800000005896"[wb_index] - '0'
G9Table == <<0, 1, 2, 3, 4, 7, 8, 0, 0, 0, 0, 0, 0, 0, 5, 8, 9, 6>>

\* a float that is an integer, and the half of an integer
Float(n) == [n |-> n, d |-> 1]
Half(n) == [n |-> n, d |-> 2]

ModeOfTransposed(sub) ==
  IF sub.x = 1 /\ sub.y = 2 THEN "sRaw2"
  ELSE IF sub.y = 2 /\ sub.x = 2 THEN "sRaw1"
  ELSE ""

\* lines 307-313: the mode string
ModeOf(sub) ==
  IF sub.y = 1 /\ sub.x = 2 THEN "sRaw2"
  ELSE IF sub.y = 2 /\ sub.x = 2 THEN "sRaw1"
  ELSE ""

\* lines 324-335: the coefficients read from CANONCOLORDATA
ColorDataWB(c, hinted, digits) ==
  LET offset == (IF hinted THEN ParseDecimal(digits) ELSE 126) \div 2
  IN <<Float(EntryValue(c, offset + 0)), Float(EntryValue(c, offset + 1)),
       Float(EntryValue(c, offset + 3))>>

\* lines 339-348: the coefficients read from CANONPOWERSHOTG9WB
G9WB(c, wb_index) ==
  LET wb_offset == (IF wb_index < 18 THEN G9Table[wb_index + 1] ELSE 0) * 8 + 2
  IN <<Float(EntryValue(c, wb_offset + 1)),
       Half(EntryValue(c, wb_offset + 0) + EntryValue(c, wb_offset + 3)),
       Float(EntryValue(c, wb_offset + 2))>>

\* lines 351-356: the coefficients read from entry 0xa4
LegacyWB(c, count, before) ==
  IF count >= 3
  THEN <<Float(EntryValue(c, 0)), Float(EntryValue(c, 1)),
         Float(EntryValue(c, 2))>>
  ELSE before

\* the files and hints decodeMetaDataInternal may meet
MetaInputs ==
  { m \in [hasModel : BOOLEAN, isoEntry : {NoEntry, Entry(100)},
           wbSource : WbSources, readable : BOOLEAN, contents : {1, 2},
           wb_offset : WbOffsetHints, wb_index : {0, 6, 17, 18},
           count : {2, 3}] :
      /\ m.wbSource # "colordata" => m.wb_offset = <<>>
      /\ m.wbSource # "g9" => m.wb_index = 0
      /\ m.wbSource # "a4" => m.count = 3
      /\ m.wbSource = "none" => m.readable /\ m.contents = 1 }

InitMeta ==
  /\ pc = "meta_start"
  /\ outcome = "running"
  /\ what = ""
  /\ meta \in MetaInputs
  /\ hints \in {{}, {"wb_offset"}}
  /\ (meta.wbSource # "colordata" \/ meta.wb_offset = <<>>)
       => "wb_offset" \notin hints
  /\ mode = ""
  /\ iso = 0
  /\ wbCoeffs = <<Float(0), Float(0), Float(0)>>
  /\ cfa = <<>>
  /\ metaCalls = <<>>
  /\ dim = [x |-> 0, y |-> 0]
  /\ cpp = 1
  /\ isCFA = FALSE
  /\ allocated = TRUE
  /\ errors = <<>>
  /\ subsampling \in [x : 1..MaxSubsampling, y : 1..MaxSubsampling]
  /\ interpolated = FALSE
  /\ IdleNew
  /\ IdleCalls
  /\ IdleOld
  /\ IdleYuv

\* lines 298-313: the CFA pattern, the camera's name, the mode
MetaMode ==
  /\ pc = "meta_start"
  /\ cfa' = <<"CFA_RED", "CFA_GREEN", "CFA_GREEN2", "CFA_BLUE">>
  /\ IF ~meta.hasModel
     THEN Throw("CR2 Meta Decoder: Model name not found") /\ UNCHANGED mode
     ELSE /\ mode' = ModeOf(subsampling)
          /\ pc' = "meta_iso"
          /\ UNCHANGED <<outcome, what>>
  /\ UNCHANGED <<meta, iso, wbCoeffs, metaCalls>>
  /\ UNCHANGED <<hints, rawVars, newVars, decodeCalls, decodeResults, oldVars,
                 yuvVars>>

\* lines 315-316: the ISO speed
MetaIso ==
  /\ pc = "meta_iso"
  /\ iso' = IF meta.isoEntry.present THEN meta.isoEntry.val ELSE iso
  /\ pc' = "meta_wb"
  /\ UNCHANGED <<outcome, what, meta, mode, wbCoeffs, cfa, metaCalls>>
  /\ UNCHANGED <<hints, rawVars, newVars, decodeCalls, decodeResults, oldVars,
                 yuvVars>>

\* lines 319-362: the white balance; an exception while reading it is logged
MetaWB ==
  /\ pc = "meta_wb"
  /\ IF meta.wbSource # "none" /\ ~meta.readable
     THEN /\ errors' = Append(errors, "wb")
          /\ UNCHANGED wbCoeffs
     ELSE /\ wbCoeffs' =
               CASE meta.wbSource = "colordata" ->
                      ColorDataWB(meta.contents, "wb_offset" \in hints,
                                  meta.wb_offset)
                 [] meta.wbSource = "g9" -> G9WB(meta.contents, meta.wb_index)
                 [] meta.wbSource = "a4" ->
                      LegacyWB(meta.contents, meta.count, wbCoeffs)
                 [] OTHER -> wbCoeffs
          /\ UNCHANGED errors
  /\ pc' = "meta_set"
  /\ UNCHANGED <<outcome, what, meta, mode, iso, cfa, metaCalls>>
  /\ UNCHANGED <<dim, cpp, isCFA, allocated, subsampling, interpolated>>
  /\ UNCHANGED <<hints, newVars, decodeCalls, decodeResults, oldVars, yuvVars>>

\* line 363: setMetaData(meta, make, model, mode, iso)
MetaSet ==
  /\ pc = "meta_set"
  /\ metaCalls' = Append(metaCalls, [mode |-> mode, iso |-> iso])
  /\ pc' = "done"
  /\ outcome' = "returned"
  /\ UNCHANGED <<what, meta, mode, iso, wbCoeffs, cfa>>
  /\ UNCHANGED <<hints, rawVars, newVars, decodeCalls, decodeResults, oldVars,
                 yuvVars>>

NextMeta ==
  \/ MetaMode
  \/ MetaIso
  \/ MetaWB
  \/ MetaSet

SpecMeta == InitMeta /\ [][NextMeta]_vars

\* C10 as stated: setMetaData is passed "sRaw1" for subsampling (sx, sy) =
\* (2, 2), "sRaw2" for (1, 2), and the empty string otherwise.
C10_ModeSRaw2ForOneByTwo ==
  \A k \in 1..Len(metaCalls) :
    metaCalls[k].mode =
      IF subsampling.x = 2 /\ subsampling.y = 2 THEN "sRaw1"
      ELSE IF subsampling.x = 1 /\ subsampling.y = 2 THEN "sRaw2"
      ELSE ""

\* C10 amended: setMetaData is passed "sRaw1" for subsampling (sx, sy) =
\* (2, 2), "sRaw2" for (2, 1), and the empty string otherwise.
C10_ModeSRaw2ForTwoByOne ==
  /\ Len(metaCalls) <= 1
  /\ pc = "done" /\ outcome = "returned" => Len(metaCalls) = 1
  /\ \A k \in 1..Len(metaCalls) :
       metaCalls[k].mode =
         IF subsampling.x = 2 /\ subsampling.y = 2 THEN "sRaw1"
         ELSE IF subsampling.x = 2 /\ subsampling.y = 1 THEN "sRaw2"
         ELSE ""

\* C10 witness: setMetaData was passed "sRaw2" for a raster subsampled (2, 1).
C10_Witness ==
  /\ metaCalls # <<>>
  /\ metaCalls[1].mode = "sRaw2"
  /\ subsampling = [x |-> 2, y |-> 1]

----------------------------------------------------------------------------
(* The interpolators: what they share.                                     *)

\* the largest number of pixel pairs (4:2:2) or blocks (4:2:0) in a row
MaxPairs == 2

\* the largest number of rows (4:2:2) or of row pairs (4:2:0)
MaxRows == 2

\* a uint32 model id, as its two 16-bit halves
ModelId(hi, lo) == [hi |-> hi, lo |-> lo]

\* a >= b on two model ids
ModelIdGE(a, b) == a.hi > b.hi \/ (a.hi = b.hi /\ a.lo >= b.lo)

\* entry 0x10: absent, 0x80000218, 0x80000250, 0x80000281
ModelIdEntries ==
  {NoEntry, Entry(ModelId(32768, 536)), Entry(ModelId(32768, 592)),
   Entry(ModelId(32768, 641))}

\* lines 366-378
getHue(h, id, sub) ==
  IF "old_sraw_hue" \in h THEN sub.y * sub.x
  ELSE IF ~id.present THEN 0
  ELSE IF \/ ModelIdGE(id.val, ModelId(32768, 641))
          \/ id.val = ModelId(32768, 536)
          \/ "force_new_sraw_hue" \in h
       THEN Shr(sub.y * sub.x - 1, 1)
       ELSE sub.y * sub.x

\* lines 400-416: the interpolator sRawInterpolate calls
InterpolatorOf(sub, h) ==
  IF sub.y = 1 /\ sub.x = 2
  THEN IF "sraw_40d" \in h THEN "interpolate_422_old"
       ELSE IF "sraw_new" \in h THEN "interpolate_422_new"
       ELSE "interpolate_422"
  ELSE IF sub.y = 2 /\ sub.x = 2
       THEN IF "sraw_new" \in h THEN "interpolate_420_new"
            ELSE "interpolate_420"
       ELSE "unknown"

\* lines 588-594: the sums of the second YUV_TO_RGB; (Cr) << 11 is
\* Cr * 2048 on every build, for a negative Cr too
LumaChroma_old(Y, Cb, Cr) ==
  << Y + Cr - 512,
     Y + Shr(-778 * Cb - Cr * 2048, 12) - 512,
     Y + (Cb - 512) >>

\* lines 642-648: the sums of the third YUV_TO_RGB
LumaChroma_new(Y, Cb, Cr) ==
  << Y + Cr,
     Y + Shr(-778 * Cb - Cr * 2048, 12),
     Y + Cb >>

\* the YUV_TO_RGB in force where the interpolator is defined
Matrix(variant, coeffs, Y, Cb, Cr) ==
  LET t == CASE variant \in {"interpolate_422", "interpolate_420"} ->
                  LumaChroma(Y, Cb, Cr)
             [] variant = "interpolate_422_old" -> LumaChroma_old(Y, Cb, Cr)
             [] OTHER -> LumaChroma_new(Y, Cb, Cr)
  IN [k \in 1..3 |-> Shr(Mul32(coeffs[k], t[k]), 8)]

\* the coefficients of the interpolator specifications; with them no
\* product of YUV_TO_RGB leaves the int
InterpCoeffs == {<<256, 128, 300>>}

\* the rasters the slice decoder may leave: every sample differs from its
\* neighbours, the chroma lies around 16384
InputIds == {1, 2}
Sample(id, y, px, c) ==
  IF c = 0
  THEN 9000 + ((id * 7001 + y * 4111 + px * 1511) % 40000)
  ELSE 10384 + ((id * 3907 + y * 2713 + px * 977 + c * 5003) % 12000)

InputRaster(id, rows, pixels) ==
  [y \in 1..rows |->
     [k \in 1..(3 * pixels) |->
        Sample(id, y - 1, (k - 1) \div 3, (k - 1) % 3)]]

\* a sample of the raster: line[idx] for the line of a row
At(d, a) == d[a.row + 1][a.idx + 1]
Addr(row, idx) == [row |-> row, idx |-> idx]

\* the locals of one call interpolate_xxx(w, h, start_h, end_h)
NewWorker(start_h, end_h) ==
  [start_h |-> start_h, end_h |-> end_h, atLastLine |-> FALSE,
   y |-> start_h, x |-> 0, q |-> 0, phase |-> "start", hue |-> 0,
   Y |-> 0, Cb |-> 0, Cr |-> 0, Cb2 |-> 0, Cr2 |-> 0, Cb3 |-> 0, Cr3 |-> 0,
   pCb |-> 0, pCr |-> 0, reads |-> {}, met |-> FALSE]

\* STORE_RGB(line, off, off + 1, off + 2) after YUV_TO_RGB(Y, Cb, Cr)
Stored(d, wk, variant, coeffs, a) ==
  LET v == STORE_RGB(Matrix(variant, coeffs, wk.Y, wk.pCb, wk.pCr))
  IN [d EXCEPT ![a.row + 1] =
        [k \in DOMAIN d[a.row + 1] |->
           IF k - 1 \in a.idx .. (a.idx + 2)
           THEN v[k - a.idx]
           ELSE d[a.row + 1][k]]]

----------------------------------------------------------------------------
(* interpolate_422, interpolate_422_old, interpolate_422_new: one call per *)
(* row range [start_h, end_h), each pixel loaded and stored in two steps.  *)

\* c_line = getData(0, y): the row a call works on
c_line(y) == y

NextChromaAtFirstRow(y, pos, c) == Addr(0, pos + c + 3)

\* c_line[off + 1 + 3], c_line[off + 2 + 3]: the chroma of the next pair
NextChromaAt(y, pos, c) == Addr(c_line(y), pos + c + 3)

\* what is subtracted from the chroma of the last two pixels of a row
\* (lines 467-468, 627-628, 679-680)
LastPairBias(variant, hue) ==
  IF variant = "interpolate_422" THEN hue ELSE 16384

\* const int hue = -getHue() + 16384, and the test of the row loop
Started(wk, h) ==
  [wk EXCEPT !.hue = -h + 16384,
             !.phase = IF wk.start_h < wk.end_h THEN "load" ELSE "done"]

\* Y, Cb and Cr of the pixel wk stands at, as the code reads them
Load422(d, wk, variant, w) ==
  LET pos == 6 * wk.x + 3 * wk.q
      ya == Addr(c_line(wk.y), pos)
      Y == At(d, ya)
  IN IF wk.q = 0
     THEN LET bias == IF wk.x < w - 1 THEN wk.hue
                      ELSE LastPairBias(variant, wk.hue)
              Cb == At(d, Addr(c_line(wk.y), pos + 1)) - bias
              Cr == At(d, Addr(c_line(wk.y), pos + 2)) - bias
          IN [wk EXCEPT !.phase = "store", !.Y = Y, !.Cb = Cb, !.Cr = Cr,
                        !.pCb = Cb, !.pCr = Cr,
                        !.reads = {ya, Addr(c_line(wk.y), pos + 1),
                                   Addr(c_line(wk.y), pos + 2)}]
     ELSE IF wk.x < w - 1
          THEN LET Cb2 == Shr(wk.Cb + At(d, NextChromaAt(wk.y, pos, 1))
                              - wk.hue, 1)
                   Cr2 == Shr(wk.Cr + At(d, NextChromaAt(wk.y, pos, 2))
                              - wk.hue, 1)
               IN [wk EXCEPT !.phase = "store", !.Y = Y, !.Cb2 = Cb2,
                             !.Cr2 = Cr2, !.pCb = Cb2, !.pCr = Cr2,
                             !.reads = {ya, NextChromaAt(wk.y, pos, 1),
                                        NextChromaAt(wk.y, pos, 2)}]
          ELSE [wk EXCEPT !.phase = "store", !.Y = Y, !.pCb = wk.Cb,
                          !.pCr = wk.Cr, !.reads = {ya}]

\* where STORE_RGB writes the pixel wk stands at
StoreAt422(wk) == Addr(c_line(wk.y), 6 * wk.x + 3 * wk.q)

\* the pixel after the one stored: the loops over x and y
Advance422(wk, w) ==
  IF wk.q = 0 THEN [wk EXCEPT !.q = 1, !.phase = "load"]
  ELSE IF wk.x < w - 1
       THEN [wk EXCEPT !.x = wk.x + 1, !.q = 0, !.phase = "load"]
       ELSE [wk EXCEPT !.y = wk.y + 1, !.x = 0, !.q = 0,
                       !.phase = IF wk.y + 1 < wk.end_h THEN "load"
                                 ELSE "done"]

\* one call run from its first step to its last with nothing in between
RECURSIVE Run422(_, _, _, _, _, _)
Run422(d, wk, variant, coeffs, w, h) ==
  CASE wk.phase = "done" -> d
    [] wk.phase = "start" ->
         Run422(d, Started(wk, h), variant, coeffs, w, h)
    [] wk.phase = "load" ->
         Run422(d, Load422(d, wk, variant, w), variant, coeffs, w, h)
    [] wk.phase = "store" ->
         Run422(Stored(d, wk, variant, coeffs, StoreAt422(wk)),
                Advance422(wk, w), variant, coeffs, w, h)

AllDone(ws) == \A k \in DOMAIN ws : ws[k].phase = "done"

RowsOf(addrs) == {a.row : a \in addrs}

\* the pixels of a raster, as <<row, pixel>>
Pixels(d) == (0..(d.y - 1)) \X (0..(d.x - 1))

\* the call is between its first read and its return
Running(wk) == wk.phase \in {"load", "store"}

\* the state shared by the interpolator specifications before a call
InitInterp(sub, blockW, blockH, ids, models) ==
  /\ pc = "interp"
  /\ outcome = "running"
  /\ what = ""
  /\ modelId \in models
  /\ subsampling = sub
  /\ \E w \in 1..MaxPairs, h \in 1..MaxRows :
       dim = [x |-> w * blockW, y |-> h * blockH]
  /\ cpp = 3
  /\ isCFA = FALSE
  /\ allocated = TRUE
  /\ errors = <<>>
  /\ interpolated = FALSE
  /\ input \in {InputRaster(id, dim.y, dim.x) : id \in ids}
  /\ data = input
  /\ sraw_coeffs \in InterpCoeffs
  /\ wb = <<>>
  /\ yuv = [Y |-> 0, Cb |-> 0, Cr |-> 0, hue |-> 0]
  /\ rgb = <<>>
  /\ stores = [a \in Pixels(dim) |-> <<>>]
  /\ touched = {}
  /\ stale = {}
  /\ uncorrectedRawValues = FALSE
  /\ offSource = ""
  /\ off = 0
  /\ header = [height |-> 0, width |-> 0]
  /\ table = <<>>
  /\ curve = NoEntry
  /\ IdleNew
  /\ IdleCalls
  /\ IdleMeta

\* the hints given with a 4:2:2 raster: each interpolator, with each hue
Hints422 ==
  {{}, {"sraw_40d"}, {"sraw_new"}, {"sraw_40d", "sraw_new"},
   {"old_sraw_hue"}, {"old_sraw_hue", "sraw_40d"},
   {"force_new_sraw_hue", "sraw_new"}}

Init422 ==
  /\ InitInterp([x |-> 2, y |-> 1], 2, 1, {1},
                {NoEntry, Entry(ModelId(32768, 592))})
  /\ hints \in Hints422
  /\ \E split \in 0..dim.y :
       workers = <<NewWorker(0, split), NewWorker(split, dim.y)>>

\* what no step of an interpolator changes
InterpFrame ==
  /\ UNCHANGED <<what, hints, modelId, input, sraw_coeffs, wb, yuv, rgb>>
  /\ UNCHANGED <<dim, cpp, isCFA, allocated, errors, subsampling>>
  /\ UNCHANGED <<uncorrectedRawValues, offSource, off, header, table, curve>>
  /\ UNCHANGED <<newVars, decodeCalls, decodeResults, metaVars>>

\* the call returns; the pass is over once every call has
Finish(ws) ==
  IF AllDone(ws)
  THEN pc' = "done" /\ outcome' = "returned" /\ interpolated' = TRUE
  ELSE UNCHANGED <<pc, outcome, interpolated>>

\* lines 441-446: w--, hue, the first test of the row loop
Start422(k) ==
  /\ pc = "interp"
  /\ workers[k].phase = "start"
  /\ workers' = [workers EXCEPT
                   ![k] = Started(@, getHue(hints, modelId, subsampling))]
  /\ Finish(workers')
  /\ UNCHANGED <<data, stores, touched, stale>>
  /\ InterpFrame

\* the reads of one pixel (lines 451-453, 458-460, 466-468, 472)
LoadPixel422(k) ==
  /\ pc = "interp"
  /\ workers[k].phase = "load"
  /\ workers' = [workers EXCEPT
                   ![k] = Load422(data, @,
                                  InterpolatorOf(subsampling, hints),
                                  dim.x \div 2)]
  /\ touched' = touched \cup {<<k, r>> : r \in RowsOf(workers'[k].reads)}
  /\ UNCHANGED <<pc, outcome, interpolated, data, stores, stale>>
  /\ InterpFrame

\* YUV_TO_RGB and STORE_RGB of one pixel (lines 454-456, 461-463, 469-470,
\* 473-474), and the step to the next
StorePixel422(k) ==
  /\ pc = "interp"
  /\ workers[k].phase = "store"
  /\ LET wk == workers[k]
         a == StoreAt422(wk)
     IN /\ data' = Stored(data, wk, InterpolatorOf(subsampling, hints),
                          sraw_coeffs, a)
        /\ stores' = [stores EXCEPT ![<<a.row, a.idx \div 3>>] =
                        Append(@, [k |-> k, Cb |-> wk.pCb, Cr |-> wk.pCr])]
        /\ touched' = touched \cup {<<k, a.row>>}
        /\ workers' =
             [workers EXCEPT
                ![k] = [Advance422(wk, dim.x \div 2) EXCEPT
                          !.met = wk.met \/ \E j \in DOMAIN workers \ {k} :
                                              Running(workers[j])]]
  /\ Finish(workers')
  /\ UNCHANGED stale
  /\ InterpFrame

Next422 ==
  \/ \E k \in DOMAIN workers : Start422(k)
  \/ \E k \in DOMAIN workers : LoadPixel422(k)
  \/ \E k \in DOMAIN workers : StorePixel422(k)

Spec422 == Init422 /\ [][Next422]_vars

\* the chroma sample c of pixel pair x of row y, with 16384 - getHue() removed
UnbiasedInput(y, x, c) ==
  input[y + 1][6 * x + c + 1] - (16384 - getHue(hints, modelId, subsampling))

\* C12 as stated: every chroma sample read from the raster, those of the
\* final pixel pair of a row included, has the bias 16384 - getHue() removed
\* before it is matrixed, in each 4:2:2 interpolator and for every hue.
C12_SameBiasOnEveryChroma ==
  \A a \in DOMAIN stores : \A n \in 1..Len(stores[a]) :
    LET st == stores[a][n]
        x == a[2] \div 2
        c == <<st.Cb, st.Cr>>
    IN \A j \in 1..2 :
         c[j] = IF a[2] % 2 = 0 \/ x = dim.x \div 2 - 1
                THEN UnbiasedInput(a[1], x, j)
                ELSE Shr(UnbiasedInput(a[1], x, j)
                         + UnbiasedInput(a[1], x + 1, j), 1)

\* C14: each 4:2:2 call reads and writes only rows of its own range, and
\* once every call has returned the raster is the one a single call over
\* all the rows produces.
C14_RowRangesAreIndependent ==
  /\ \A t \in touched :
       workers[t[1]].start_h <= t[2] /\ t[2] < workers[t[1]].end_h
  /\ AllDone(workers) =>
       data = Run422(input, NewWorker(0, dim.y),
                     InterpolatorOf(subsampling, hints), sraw_coeffs,
                     dim.x \div 2, getHue(hints, modelId, subsampling))

\* C14 witness: two calls over non-empty ranges have both returned, and
\* each has stored a pixel while the other was running.
C14_Witness ==
  /\ AllDone(workers)
  /\ \A k \in DOMAIN workers :
       workers[k].start_h < workers[k].end_h /\ workers[k].met
  /\ data # input

----------------------------------------------------------------------------
(* interpolate_420 and interpolate_420_new, as sRawInterpolate calls them: *)
(* one call over all the row pairs.  In a worker y counts row pairs, x     *)
(* blocks of 2 x 2 pixels, and q the pixels of a block: 0 upper left,      *)
(* 1 upper right, 2 lower left, 3 lower right.                             *)

\* where the loops stand: inside the row loop every block is converted,
\* the last one after the loop over x; in the last row pair only the
\* blocks x < w - 1 are (lines 502, 507, 534, 556, 562)
Settle420(wk, w) ==
  [wk EXCEPT !.phase =
     IF wk.y < wk.end_h THEN "load"
     ELSE IF wk.atLastLine /\ wk.y = wk.end_h /\ wk.x < w - 1 THEN "load"
     ELSE "done"]

\* lines 482-500: w--, end_h-- when the call reaches the last row pair, hue
Started420(wk, hv, w, h) ==
  Settle420([wk EXCEPT !.hue = -hv + 16384,
                       !.end_h = IF wk.end_h = h THEN wk.end_h - 1
                                 ELSE wk.end_h,
                       !.atLastLine = (wk.end_h = h)], w)

\* Y of pixel q of the block: c_line[off], c_line[off + 3], n_line[off],
\* n_line[off + 3]
LumaAt420(wk) ==
  Addr(2 * wk.y + wk.q \div 2, 6 * wk.x + 3 * (wk.q % 2))

\* Y, Cb and Cr of the pixel wk stands at, as the code reads them
Load420(d, wk, w) ==
  LET pos == 6 * wk.x
      c == 2 * wk.y
      nn == 2 * wk.y + 2
      ya == LumaAt420(wk)
      Y == At(d, ya)
      C(a) == At(d, a) - wk.hue
      direct == [wk EXCEPT !.phase = "store", !.Y = Y, !.pCb = wk.Cb,
                           !.pCr = wk.Cr, !.reads = {ya}]
  IN IF wk.q = 0
     THEN LET Cb == C(Addr(c, pos + 1))
              Cr == C(Addr(c, pos + 2))
          IN [wk EXCEPT !.phase = "store", !.Y = Y, !.Cb = Cb, !.Cr = Cr,
                        !.pCb = Cb, !.pCr = Cr,
                        !.reads = {ya, Addr(c, pos + 1), Addr(c, pos + 2)}]
     ELSE IF wk.y >= wk.end_h
     THEN direct
     ELSE IF wk.x < w - 1
     THEN CASE wk.q = 1 ->
                 LET Cb2 == Shr(wk.Cb + C(Addr(c, pos + 1 + 6)), 1)
                     Cr2 == Shr(wk.Cr + C(Addr(c, pos + 2 + 6)), 1)
                 IN [wk EXCEPT !.phase = "store", !.Y = Y, !.Cb2 = Cb2,
                               !.Cr2 = Cr2, !.pCb = Cb2, !.pCr = Cr2,
                               !.reads = {ya, Addr(c, pos + 1 + 6),
                                          Addr(c, pos + 2 + 6)}]
            [] wk.q = 2 ->
                 LET Cb3 == Shr(wk.Cb + C(Addr(nn, pos + 1)), 1)
                     Cr3 == Shr(wk.Cr + C(Addr(nn, pos + 2)), 1)
                 IN [wk EXCEPT !.phase = "store", !.Y = Y, !.Cb3 = Cb3,
                               !.Cr3 = Cr3, !.pCb = Cb3, !.pCr = Cr3,
                               !.reads = {ya, Addr(nn, pos + 1),
                                          Addr(nn, pos + 2)}]
            [] OTHER ->
                 LET Cb == Shr(wk.Cb + wk.Cb2 + wk.Cb3
                               + C(Addr(nn, pos + 1 + 6)), 2)
                     Cr == Shr(wk.Cr + wk.Cr2 + wk.Cr3
                               + C(Addr(nn, pos + 2 + 6)), 2)
                 IN [wk EXCEPT !.phase = "store", !.Y = Y, !.Cb = Cb,
                               !.Cr = Cr, !.pCb = Cb, !.pCr = Cr,
                               !.reads = {ya, Addr(nn, pos + 1 + 6),
                                          Addr(nn, pos + 2 + 6)}]
     ELSE IF wk.q = 2
     THEN LET Cb == Shr(wk.Cb + C(Addr(nn, pos + 1)), 1)
              Cr == Shr(wk.Cr + C(Addr(nn, pos + 2)), 1)
          IN [wk EXCEPT !.phase = "store", !.Y = Y, !.Cb = Cb, !.Cr = Cr,
                        !.pCb = Cb, !.pCr = Cr,
                        !.reads = {ya, Addr(nn, pos + 1), Addr(nn, pos + 2)}]
     ELSE direct

\* the pixel after the one stored: off += 6 and the loops over x and y
Advance420(wk, w) ==
  IF wk.q < 3 THEN [wk EXCEPT !.q = wk.q + 1, !.phase = "load"]
  ELSE IF wk.y < wk.end_h /\ wk.x >= w - 1
       THEN Settle420([wk EXCEPT !.y = wk.y + 1, !.x = 0, !.q = 0], w)
       ELSE Settle420([wk EXCEPT !.x = wk.x + 1, !.q = 0], w)

\* the chroma samples among the samples read
ChromaOf(addrs) == {a \in addrs : a.idx % 3 # 0}

\* the samples STORE_RGB has overwritten so far
Overwritten(a) == stores[<<a.row, a.idx \div 3>>] # <<>>

Init420 ==
  /\ InitInterp([x |-> 2, y |-> 2], 2, 2, InputIds, ModelIdEntries)
  /\ hints \in SUBSET {"old_sraw_hue", "force_new_sraw_hue", "sraw_new"}
  /\ workers = <<NewWorker(0, dim.y \div 2)>>

\* lines 412-414 and 482-502: the call, and what precedes its loops
Start420 ==
  /\ pc = "interp"
  /\ workers[1].phase = "start"
  /\ workers' = [workers EXCEPT
                   ![1] = Started420(@, getHue(hints, modelId, subsampling),
                                     dim.x \div 2, dim.y \div 2)]
  /\ Finish(workers')
  /\ UNCHANGED <<data, stores, touched, stale>>
  /\ InterpFrame

\* the reads of one pixel
LoadPixel420 ==
  /\ pc = "interp"
  /\ workers[1].phase = "load"
  /\ workers' = [workers EXCEPT ![1] = Load420(data, @, dim.x \div 2)]
  /\ touched' = touched \cup {<<1, r>> : r \in RowsOf(workers'[1].reads)}
  /\ stale' = stale \cup
                {a \in ChromaOf(workers'[1].reads) : Overwritten(a)}
  /\ UNCHANGED <<pc, outcome, interpolated, data, stores>>
  /\ InterpFrame

\* YUV_TO_RGB and STORE_RGB of one pixel, and the step to the next
StorePixel420 ==
  /\ pc = "interp"
  /\ workers[1].phase = "store"
  /\ LET wk == workers[1]
         a == LumaAt420(wk)
     IN /\ data' = Stored(data, wk, InterpolatorOf(subsampling, hints),
                          sraw_coeffs, a)
        /\ stores' = [stores EXCEPT ![<<a.row, a.idx \div 3>>] =
                        Append(@, [k |-> 1, Cb |-> wk.pCb, Cr |-> wk.pCr])]
        /\ touched' = touched \cup {<<1, a.row>>}
        /\ workers' = [workers EXCEPT ![1] = Advance420(wk, dim.x \div 2)]
  /\ Finish(workers')
  /\ UNCHANGED stale
  /\ InterpFrame

Next420 ==
  \/ Start420
  \/ LoadPixel420
  \/ StorePixel420

Spec420 == Init420 /\ [][Next420]_vars

\* the chroma sample c of the block x of row pair y, with 16384 - getHue()
\* removed
UnbiasedBlock(y, x, c) ==
  input[2 * y + 1][6 * x + c + 1]
    - (16384 - getHue(hints, modelId, subsampling))

\* a / 4 rounded towards zero
Quarter(a) == IF a >= 0 THEN a \div 4 ELSE -((-a) \div 4)

\* C11 as stated: for a block with a right and a below neighbour, the
\* chroma of the lower-right pixel is the quarter of the sum of the
\* bias-corrected chroma of the block, of the block to its right, of the
\* block below and of the block below-right.
C11_LowerRightIsMeanOfFourBlocks ==
  \A a \in DOMAIN stores : \A n \in 1..Len(stores[a]) :
    LET st == stores[a][n]
        x == a[2] \div 2
        y == a[1] \div 2
        c == <<st.Cb, st.Cr>>
    IN (/\ a[2] % 2 = 1 /\ a[1] % 2 = 1
        /\ x < dim.x \div 2 - 1 /\ y < dim.y \div 2 - 1) =>
         \A j \in 1..2 :
           LET sum == UnbiasedBlock(y, x, j) + UnbiasedBlock(y, x + 1, j)
                      + UnbiasedBlock(y + 1, x, j)
                      + UnbiasedBlock(y + 1, x + 1, j)
           IN c[j] \in {Shr(sum, 2), Quarter(sum)}

\* C13 as stated: getHue returns (sx * sy - 1) >> 1 whenever
\* "force_new_sraw_hue" is set and "old_sraw_hue" is not, whatever the model
\* id and also without entry 0x10, and sx * sy whenever "old_sraw_hue" is
\* set.
C13_ForcedHueWhateverTheModel ==
  workers[1].phase # "start" =>
    LET hue == 16384 - workers[1].hue
        base == subsampling.x * subsampling.y
    IN /\ ("force_new_sraw_hue" \in hints /\ "old_sraw_hue" \notin hints)
            => hue = Shr(base - 1, 1)
       /\ "old_sraw_hue" \in hints => hue = base

\* C15 as stated: after the pass over a 4:2:0 raster of even dimensions
\* every pixel has been converted exactly once, those of the final column
\* of the final row pair included, and no chroma sample was read after the
\* pass had overwritten it.
C15_EveryPixelConvertedOnce ==
  pc = "done" =>
    /\ \A a \in Pixels(dim) : Len(stores[a]) = 1
    /\ stale = {}

=============================================================================
